---------------------------- MODULE Spec2Model ----------------------------
(***************************************************************************)
(* A model of organize-photos: the helpers of organize_photos/utils.py     *)
(* (find_image_files, get_unique_filename, transfer_file,                  *)
(* write_duplicate_report, get_files_to_delete) and the organize and       *)
(* dedupe commands of organize_photos/cli.py.                              *)
(*                                                                         *)
(* Text is modelled character by character: a string is a sequence of      *)
(* one-character strings, a Path is the sequence of its parts (pathlib's   *)
(* Path.parts), and duplicates.csv is the sequence of characters the csv   *)
(* writer emits (the line terminator "\r\n" is the single character "\n"). *)
(***************************************************************************)
EXTENDS Integers, Sequences, FiniteSets, TLC

VARIABLES
    files,          \* the filesystem's regular files: path -> [hash, date]
    dirs,           \* the filesystem's directories: a set of paths
    pc,             \* where the running command is
    source,         \* organize --source (a sequence of raw paths)
    copy,           \* organize --copy
    image_files,    \* organize: list(find_image_files(source))
    done_files,     \* organize: how many entries of image_files were processed
    hashes,         \* organize: the ledger, a sequence of [hash, list] groups
    errors_log,     \* the lines logging.error appended to errors.log
    transfers,      \* history: one record per transfer_file call that returned
    report,         \* the text of duplicates.csv, or NoFile
    to_delete,      \* what get_files_to_delete returned
    candidate,      \* the argument of get_unique_filename
    results,        \* the paths successive get_unique_filename calls returned
    yes,            \* dedupe --yes
    answer,         \* dedupe: what the user answered to click.confirm, "" before
    deleted,        \* dedupe: one record per iteration of the deletion loop
    dedupe_exit     \* dedupe: << exit status >> once it has ended, << >> before

vars == <<files, dirs, pc, source, copy, image_files, done_files, hashes,
          errors_log, transfers, report, to_delete, candidate, results,
          yes, answer, deleted, dedupe_exit>>

(***************************************************************************)
(* Bounds of the model.                                                    *)
(***************************************************************************)
\* get_unique_filename: counters 0..MaxCounter may be taken in the directory
MaxCounter == 10
\* get_files_to_delete: data rows of a report read from disk
MaxRows == 3
\* write_duplicate_report: entries of an in-memory ledger
MaxEntries == 3
\* organize: files of one run whose fingerprinting or transfer fails on an
\* I/O error (a file that is gone fails besides)
MaxFailures == 1
\* dedupe: files of one run whose unlink fails on an I/O error (a directory
\* fails besides)
MaxDeleteFailures == 1

(***************************************************************************)
(* Strings.                                                                *)
(***************************************************************************)
\* The characters of the model in ASCII order ("\n" stands for "\r\n").
Ascii ==
    << "\n", " ", "\"", ",", "-", ".", "/",
       "0", "1", "2", "3", "4", "5", "6", "7", "8", "9",
       "A", "B", "C", "D", "E", "F", "G", "H", "I", "J", "K", "L", "M",
       "N", "O", "P", "Q", "R", "S", "T", "U", "V", "W", "X", "Y", "Z", "_",
       "a", "b", "c", "d", "e", "f", "g", "h", "i", "j", "k", "l", "m",
       "n", "o", "p", "q", "r", "s", "t", "u", "v", "w", "x", "y", "z" >>

\* The rank of a character in code-point order.
Ord(c) == CHOOSE i \in 1..Len(Ascii) : Ascii[i] = c

Uppercase == { Ascii[i] : i \in Ord("A")..Ord("Z") }

\* str.lower() on one character, and on a string.
LowerChar(c) == IF c \in Uppercase THEN Ascii[Ord(c) - Ord("A") + Ord("a")] ELSE c

Lower(s) == [i \in 1..Len(s) |-> LowerChar(s[i])]

MinOf(a, b) == IF a <= b THEN a ELSE b

\* Python's s < t on strings: lexicographic by code point.
StrLess(s, t) ==
    \/ /\ Len(s) < Len(t)
       /\ \A j \in 1..Len(s) : s[j] = t[j]
    \/ \E i \in 1..MinOf(Len(s), Len(t)) :
          /\ \A j \in 1..(i - 1) : s[j] = t[j]
          /\ Ord(s[i]) < Ord(t[i])

\* str(n) for a natural number n.
RECURSIVE Dec(_)
Dec(n) ==
    IF n < 10 THEN << Ascii[Ord("0") + n] >>
    ELSE Dec(n \div 10) \o << Ascii[Ord("0") + (n % 10)] >>

\* The concatenation of a sequence of strings, sep between them.
RECURSIVE JoinStr(_, _)
JoinStr(strs, sep) ==
    IF Len(strs) = 0 THEN << >>
    ELSE IF Len(strs) = 1 THEN strs[1]
    ELSE strs[1] \o sep \o JoinStr(Tail(strs), sep)

\* s.split(sep) for a one-character sep.
RECURSIVE SplitStr(_, _)
SplitStr(s, sep) ==
    IF \A i \in 1..Len(s) : s[i] # sep THEN << s >>
    ELSE LET i == CHOOSE k \in 1..Len(s) :
                     s[k] = sep /\ \A j \in 1..(k - 1) : s[j] # sep
         IN << SubSeq(s, 1, i - 1) >> \o SplitStr(SubSeq(s, i + 1, Len(s)), sep)

(***************************************************************************)
(* pathlib.  A Path is its parts; an absolute path's first part is "/".    *)
(***************************************************************************)
Slash == << "/" >>

RootPart(s) ==
    IF Len(s) >= 1 /\ s[1] = "/"
    THEN IF Len(s) >= 2 /\ s[2] = "/" /\ ~(Len(s) >= 3 /\ s[3] = "/")
         THEN << << "/", "/" >> >>
         ELSE << Slash >>
    ELSE << >>

\* Path(s): split at "/", drop the empty parts and the "." parts.
PathOf(s) ==
    RootPart(s) \o SelectSeq(SplitStr(s, "/"), LAMBDA part : part # << >> /\ part # << "." >>)

IsRoot(part) == Len(part) >= 1 /\ part[1] = "/"

\* str(path)
PathStr(p) ==
    IF Len(p) = 0 THEN << "." >>
    ELSE IF IsRoot(p[1]) THEN p[1] \o JoinStr(Tail(p), Slash)
    ELSE JoinStr(p, Slash)

\* path.name
NameOf(p) ==
    IF Len(p) = 0 \/ (Len(p) = 1 /\ IsRoot(p[1])) THEN << >> ELSE p[Len(p)]

\* path.parent
ParentOf(p) ==
    IF Len(p) = 0 \/ (Len(p) = 1 /\ IsRoot(p[1])) THEN p ELSE SubSeq(p, 1, Len(p) - 1)

\* path.parents
ParentsOf(p) ==
    IF Len(p) = 0 THEN {}
    ELSE { SubSeq(p, 1, n) : n \in (IF IsRoot(p[1]) THEN 1 ELSE 0)..(Len(p) - 1) }

\* name.rfind("."), 1-based, 0 when there is no dot
LastDot(name) ==
    IF \A i \in 1..Len(name) : name[i] # "." THEN 0
    ELSE CHOOSE i \in 1..Len(name) :
             name[i] = "." /\ \A j \in (i + 1)..Len(name) : name[j] # "."

\* path.suffix: from the last dot, unless the dot is first or last
SuffixOf(p) ==
    LET name == NameOf(p)
        i == LastDot(name)
    IN IF 1 < i /\ i < Len(name) THEN SubSeq(name, i, Len(name)) ELSE << >>

\* path.stem
StemOf(p) ==
    LET name == NameOf(p)
        i == LastDot(name)
    IN IF 1 < i /\ i < Len(name) THEN SubSeq(name, 1, i - 1) ELSE name

\* path / name, for a name that is one part
Child(p, name) == Append(p, name)

(***************************************************************************)
(* The filesystem.                                                         *)
(***************************************************************************)
\* path.exists()
Exists(fs_files, fs_dirs, p) == p \in DOMAIN fs_files \/ p \in fs_dirs

\* path.is_file()
IsFile(fs_files, p) == p \in DOMAIN fs_files

(***************************************************************************)
(* utils.get_unique_filename                                               *)
(***************************************************************************)
\* UniqueLoop with "counter += 2" for "counter += 1".
RECURSIVE UniqueLoopByTwo(_, _, _, _, _, _)
UniqueLoopByTwo(fs_files, fs_dirs, parent, stem, suffix, counter) ==
    LET new_stem == stem \o << "-" >> \o Dec(counter)
        new_path == Child(parent, new_stem \o suffix)
    IN IF ~Exists(fs_files, fs_dirs, new_path) THEN new_path
       ELSE UniqueLoopByTwo(fs_files, fs_dirs, parent, stem, suffix, counter + 2)

\* The while loop, entered with counter.
RECURSIVE UniqueLoop(_, _, _, _, _, _)
UniqueLoop(fs_files, fs_dirs, parent, stem, suffix, counter) ==
    LET new_stem == stem \o << "-" >> \o Dec(counter)
        new_path == Child(parent, new_stem \o suffix)
    IN IF ~Exists(fs_files, fs_dirs, new_path) THEN new_path
       ELSE UniqueLoop(fs_files, fs_dirs, parent, stem, suffix, counter + 1)

\* get_unique_filename with "counter = 0" for "counter = 1".
get_unique_filename_from_zero(fs_files, fs_dirs, destination_path) ==
    IF ~Exists(fs_files, fs_dirs, destination_path) THEN destination_path
    ELSE UniqueLoop(fs_files, fs_dirs, ParentOf(destination_path),
                    StemOf(destination_path), SuffixOf(destination_path), 0)

get_unique_filename(fs_files, fs_dirs, destination_path) ==
    IF ~Exists(fs_files, fs_dirs, destination_path) THEN destination_path
    ELSE UniqueLoop(fs_files, fs_dirs, ParentOf(destination_path),
                    StemOf(destination_path), SuffixOf(destination_path), 1)


(***************************************************************************)
(* Values shared by the specifications.                                    *)
(***************************************************************************)
\* The content of a path that holds no file.
NoFile == << "no such file" >>

\* A regular file's content: its SHA-256 digest and its EXIF DateTimeOriginal.
NoDate == [year |-> 0, month |-> 0]

FileContent(h, d) == [hash |-> h, date |-> d]

jpg == << ".", "j", "p", "g" >>

\* /d, the directory the candidates of get_unique_filename lie in
UniqueDir == << Slash, << "d" >> >>

\* The state of dedupe before it is run.
NoDedupe ==
    /\ yes = FALSE
    /\ answer = ""
    /\ deleted = << >>
    /\ dedupe_exit = << >>

DedupeKeep == UNCHANGED <<yes, answer, deleted, dedupe_exit>>

\* The organize and dedupe state of a specification that runs neither.
NoCommand ==
    /\ NoDedupe
    /\ source = << >>
    /\ copy = FALSE
    /\ image_files = << >>
    /\ done_files = 0
    /\ hashes = << >>
    /\ errors_log = << >>
    /\ transfers = << >>
    /\ report = NoFile
    /\ to_delete = << >>

(***************************************************************************)
(* SpecUnique: get_unique_filename called on a directory in which any of   *)
(* the candidate's counters 0..MaxCounter may be taken, called again       *)
(* without a change, and called once more after the returned path was      *)
(* created (tests/test_utils.py, test_get_unique_filename).                *)
(***************************************************************************)
UniqueCandidates ==
    { Child(UniqueDir, << "x" >> \o jpg),
      Child(UniqueDir, << "x", "-", "1" >> \o jpg),
      Child(UniqueDir, << "x" >>) }

\* The candidate with counter k before its suffix; counter 0 is the candidate.
Numbered(c, k) ==
    IF k = 0 THEN c
    ELSE Child(ParentOf(c), StemOf(c) \o << "-" >> \o Dec(k) \o SuffixOf(c))

UniqueInit ==
    /\ pc = "unique_start"
    /\ candidate \in UniqueCandidates
    /\ \E taken \in SUBSET (0..MaxCounter), as_dirs \in BOOLEAN :
          LET paths == { Numbered(candidate, k) : k \in taken }
          IN /\ files = [p \in (IF as_dirs THEN {} ELSE paths) |-> FileContent(<< "h" >>, NoDate)]
             /\ dirs = {UniqueDir} \cup (IF as_dirs THEN paths ELSE {})
    /\ results = << >>
    /\ NoCommand

UniqueKeep == UNCHANGED <<source, copy, image_files, done_files, hashes, errors_log,
                          transfers, report, to_delete, candidate,
                          yes, answer, deleted, dedupe_exit>>

\* new_path = get_unique_filename(existing_file)
UniqueCall ==
    /\ pc = "unique_start"
    /\ results' = Append(results, get_unique_filename(files, dirs, candidate))
    /\ pc' = "unique_called"
    /\ UNCHANGED <<files, dirs>>
    /\ UniqueKeep

\* the same call again, nothing created in between
UniqueCallAgain ==
    /\ pc = "unique_called"
    /\ results' = Append(results, get_unique_filename(files, dirs, candidate))
    /\ pc' = "unique_called_twice"
    /\ UNCHANGED <<files, dirs>>
    /\ UniqueKeep

\* new_path.touch()
UniqueCreate ==
    /\ pc = "unique_called_twice"
    /\ files' = (results[1] :> FileContent(<< "h" >>, NoDate)) @@ files
    /\ pc' = "unique_created"
    /\ UNCHANGED <<dirs, results>>
    /\ UniqueKeep

\* another_path = get_unique_filename(existing_file)
UniqueCallAfterCreate ==
    /\ pc = "unique_created"
    /\ results' = Append(results, get_unique_filename(files, dirs, candidate))
    /\ pc' = "unique_done"
    /\ UNCHANGED <<files, dirs>>
    /\ UniqueKeep

UniqueNext == UniqueCall \/ UniqueCallAgain \/ UniqueCreate \/ UniqueCallAfterCreate

SpecUnique == UniqueInit /\ [][UniqueNext]_vars

\* The counter of a returned path: 0 for the candidate itself.
CounterOf(c, p) ==
    IF \E k \in 0..(MaxCounter + 3) : Numbered(c, k) = p
    THEN CHOOSE k \in 0..(MaxCounter + 3) : Numbered(c, k) = p
    ELSE -1

x_10_jpg == Child(UniqueDir, << "x", "-", "1", "0", ".", "j", "p", "g" >>)

\* C6: get_unique_filename returns the candidate unchanged when it does not
\* exist; otherwise it returns <stem>-<k><suffix> in the candidate's directory
\* for the lowest k >= 1 whose path does not exist; the returned path never
\* exists at the time of the call.
C6_UniqueLowestFree ==
    pc = "unique_called" =>
        LET r == results[1]
        IN /\ ~Exists(files, dirs, r)
           /\ ~Exists(files, dirs, candidate) => r = candidate
           /\ Exists(files, dirs, candidate) =>
                 \E k \in 1..(MaxCounter + 1) :
                    /\ r = Child(ParentOf(candidate),
                                 StemOf(candidate) \o << "-" >> \o Dec(k) \o SuffixOf(candidate))
                    /\ \A j \in 1..(k - 1) : Exists(files, dirs, Numbered(candidate, j))
           /\ (/\ candidate = Child(UniqueDir, << "x" >> \o jpg)
               /\ \A j \in 0..9 : Exists(files, dirs, Numbered(candidate, j))
               /\ ~Exists(files, dirs, x_10_jpg)) => r = x_10_jpg

\* C6's case: the candidate and its counters 1 and 2 exist, 3 is returned.
C6_Witness ==
    /\ pc = "unique_called"
    /\ Exists(files, dirs, candidate)
    /\ Exists(files, dirs, Numbered(candidate, 1))
    /\ Exists(files, dirs, Numbered(candidate, 2))
    /\ results[1] = Numbered(candidate, 3)

\* C7 as amended: a second call against the unchanged filesystem returns the
\* same path; after the first returned path is created, the next call returns
\* the path with the lowest counter above the first call's whose path does
\* not exist (the next counter value when that one is free).
C7_UniqueIdempotentThenNextFree ==
    /\ pc \in {"unique_called_twice", "unique_created", "unique_done"} =>
          results[2] = results[1]
    /\ pc = "unique_done" =>
          LET k1 == CounterOf(candidate, results[1])
              k3 == CounterOf(candidate, results[3])
          IN /\ results[3] = Numbered(candidate, k3)
             /\ k3 > k1
             /\ ~Exists(files, dirs, results[3])
             /\ \A j \in (k1 + 1)..(k3 - 1) : Exists(files, dirs, Numbered(candidate, j))

\* C7's case: counter 1 was returned twice, created, and counter 2 was taken
\* already, so the third call returns counter 3.
C7_Witness ==
    /\ pc = "unique_done"
    /\ results[1] = Numbered(candidate, 1)
    /\ results[2] = results[1]
    /\ results[3] = Numbered(candidate, 3)

\* C7 as stated: after the first returned path is created, the next call
\* returns the path with the next counter value.
C7_NextCounterValue ==
    pc = "unique_done" =>
        results[3] = Numbered(candidate, CounterOf(candidate, results[1]) + 1)


(***************************************************************************)
(* The csv module, default dialect: delimiter ",", quotechar "\"",         *)
(* QUOTE_MINIMAL, doublequote, non-strict reader.                          *)
(***************************************************************************)
CsvSpecial == { ",", "\"", "\n" }

RECURSIVE DoubleQuotes(_)
DoubleQuotes(s) ==
    IF Len(s) = 0 THEN << >>
    ELSE (IF s[1] = "\"" THEN << "\"", "\"" >> ELSE << s[1] >>) \o DoubleQuotes(Tail(s))

\* One field as the writer emits it; a row's only field is quoted when empty.
CsvField(field, alone) ==
    IF (\E i \in 1..Len(field) : field[i] \in CsvSpecial) \/ (alone /\ Len(field) = 0)
    THEN << "\"" >> \o DoubleQuotes(field) \o << "\"" >>
    ELSE field

\* writer.writerow(row)
CsvRow(row) ==
    JoinStr([i \in 1..Len(row) |-> CsvField(row[i], Len(row) = 1)], << "," >>) \o << "\n" >>

\* Iterating over the open file: its lines, each with its terminator.
RECURSIVE LinesOf(_)
LinesOf(text) ==
    IF Len(text) = 0 THEN << >>
    ELSE IF \A i \in 1..Len(text) : text[i] # "\n" THEN << text >>
    ELSE LET i == CHOOSE k \in 1..Len(text) :
                     text[k] = "\n" /\ \A j \in 1..(k - 1) : text[j] # "\n"
         IN << SubSeq(text, 1, i) >> \o LinesOf(SubSeq(text, i + 1, Len(text)))

\* The reader's state machine over the characters of one line from position
\* i on: field and row are the field and the record being read, st is the
\* parser state.  The result is the state at the end of the line.
RECURSIVE CsvParseLine(_, _, _, _, _)
CsvParseLine(line, i, field, row, st) ==
    IF i > Len(line) THEN [field |-> field, row |-> row, st |-> st]
    ELSE LET c == line[i] IN
         IF st = "in_quoted_field"
         THEN IF c = "\"" THEN CsvParseLine(line, i + 1, field, row, "quote_in_quoted_field")
              ELSE CsvParseLine(line, i + 1, Append(field, c), row, st)
         ELSE IF st = "eat_crnl"
         THEN CsvParseLine(line, i + 1, field, row, st)
         ELSE
         CASE st = "quote_in_quoted_field" /\ c = "\"" ->
                 CsvParseLine(line, i + 1, Append(field, c), row, "in_quoted_field")
           [] st = "start_record" /\ c = "\n" ->
                 CsvParseLine(line, i + 1, field, row, "eat_crnl")
           [] st # "start_record" /\ c = "\n" ->
                 CsvParseLine(line, i + 1, << >>, Append(row, field), "eat_crnl")
           [] c = "," ->
                 CsvParseLine(line, i + 1, << >>, Append(row, field), "start_field")
           [] st \in {"start_record", "start_field"} /\ c = "\"" ->
                 CsvParseLine(line, i + 1, field, row, "in_quoted_field")
           [] OTHER ->
                 CsvParseLine(line, i + 1, Append(field, c), row, "in_field")

\* The reader over the lines from ln on; a record ends with its line unless
\* the line ends inside a quoted field.
RECURSIVE CsvReadLines(_, _, _, _, _, _)
CsvReadLines(lines, ln, field, row, rows, st) ==
    IF ln > Len(lines)
    THEN IF st = "in_quoted_field" THEN Append(rows, Append(row, field)) ELSE rows
    ELSE LET r == CsvParseLine(lines[ln], 1, field, row, st)
         IN IF r.st = "in_quoted_field"
            THEN CsvReadLines(lines, ln + 1, r.field, r.row, rows, r.st)
            ELSE IF r.st \in {"eat_crnl", "start_record"}
            THEN CsvReadLines(lines, ln + 1, << >>, << >>, Append(rows, r.row), "start_record")
            ELSE CsvReadLines(lines, ln + 1, << >>, << >>,
                              Append(rows, Append(r.row, r.field)), "start_record")

\* list(csv.reader(f))
CsvRead(text) == CsvReadLines(LinesOf(text), 1, << >>, << >>, << >>, "start_record")

(***************************************************************************)
(* The ledger: defaultdict(list) as the sequence of its items in insertion *)
(* order, each [hash, file_list].                                          *)
(***************************************************************************)
HasKey(d, h) == \E i \in 1..Len(d) : d[i].hash = h

\* d[h].append(entry)
DictAppend(d, h, entry) ==
    IF HasKey(d, h)
    THEN [i \in 1..Len(d) |->
             IF d[i].hash = h
             THEN [hash |-> h, file_list |-> Append(d[i].file_list, entry)]
             ELSE d[i]]
    ELSE Append(d, [hash |-> h, file_list |-> << entry >>])

(***************************************************************************)
(* utils.write_duplicate_report                                            *)
(***************************************************************************)
ReportHeader ==
    << << "h", "a", "s", "h" >>,
       << "n", "e", "w", "_", "f", "i", "l", "e", "p", "a", "t", "h" >>,
       << "o", "l", "d", "_", "f", "i", "l", "e", "p", "a", "t", "h" >> >>

\* The rows written for one item of the ledger.
RECURSIVE ReportRows(_, _)
ReportRows(hash_val, file_list) ==
    IF Len(file_list) = 0 THEN << >>
    ELSE CsvRow(<< hash_val, PathStr(file_list[1].new_path), PathStr(file_list[1].old_path) >>)
         \o ReportRows(hash_val, Tail(file_list))

\* ReportRows with the two path columns exchanged.
RECURSIVE ReportRowsOldFirst(_, _)
ReportRowsOldFirst(hash_val, file_list) ==
    IF Len(file_list) = 0 THEN << >>
    ELSE CsvRow(<< hash_val, PathStr(file_list[1].old_path), PathStr(file_list[1].new_path) >>)
         \o ReportRowsOldFirst(hash_val, Tail(file_list))

\* The loop over duplicates.items().
RECURSIVE ReportItems(_)
ReportItems(duplicates) ==
    IF Len(duplicates) = 0 THEN << >>
    ELSE (IF Len(duplicates[1].file_list) > 1
          THEN ReportRows(duplicates[1].hash, duplicates[1].file_list)
          ELSE << >>)
         \o ReportItems(Tail(duplicates))

\* ReportItems with "len(file_list) > 0" for "len(file_list) > 1".
RECURSIVE ReportItemsAll(_)
ReportItemsAll(duplicates) ==
    IF Len(duplicates) = 0 THEN << >>
    ELSE (IF Len(duplicates[1].file_list) > 0
          THEN ReportRows(duplicates[1].hash, duplicates[1].file_list)
          ELSE << >>)
         \o ReportItemsAll(Tail(duplicates))

\* write_duplicate_report writing every item, a single location included.
write_duplicate_report_all(duplicates) == CsvRow(ReportHeader) \o ReportItemsAll(duplicates)

\* write_duplicate_report writing old_path in the new_filepath column.
RECURSIVE write_duplicate_report_old_first(_)
write_duplicate_report_old_first(duplicates) ==
    IF Len(duplicates) = 0 THEN CsvRow(ReportHeader)
    ELSE write_duplicate_report_old_first(SubSeq(duplicates, 1, Len(duplicates) - 1))
         \o (IF Len(duplicates[Len(duplicates)].file_list) > 1
             THEN ReportRowsOldFirst(duplicates[Len(duplicates)].hash,
                                     duplicates[Len(duplicates)].file_list)
             ELSE << >>)

\* The text of duplicates.csv after write_duplicate_report(destination_dir, duplicates).
write_duplicate_report(duplicates) == CsvRow(ReportHeader) \o ReportItems(duplicates)

(***************************************************************************)
(* utils.get_files_to_delete                                               *)
(***************************************************************************)
\* The loop over the reader's rows: duplicates[file_hash].append(Path(new_filepath)).
RECURSIVE GroupRows(_, _)
GroupRows(rows, duplicates) ==
    IF Len(rows) = 0 THEN duplicates
    ELSE GroupRows(Tail(rows),
                   IF Len(rows[1]) >= 2
                   THEN DictAppend(duplicates, rows[1][1], PathOf(rows[1][2]))
                   ELSE duplicates)

\* Insert path into a list sorted by str, after the entries that are not greater.
RECURSIVE InsertByStr(_, _)
InsertByStr(sorted, path) ==
    IF Len(sorted) = 0 THEN << path >>
    ELSE IF StrLess(PathStr(path), PathStr(sorted[1])) THEN << path >> \o sorted
    ELSE << sorted[1] >> \o InsertByStr(Tail(sorted), path)

\* sorted(file_list, key=lambda p: str(p)), a stable sort
RECURSIVE SortedByStr(_)
SortedByStr(file_list) ==
    IF Len(file_list) = 0 THEN << >>
    ELSE InsertByStr(SortedByStr(SubSeq(file_list, 1, Len(file_list) - 1)),
                     file_list[Len(file_list)])

\* DeleteFromGroup with sorted_files[0:]: the first file is not kept.
DeleteFromGroupAll(file_list) ==
    IF Len(file_list) > 1 THEN SortedByStr(file_list) ELSE << >>

\* What one item adds to files_to_delete.
DeleteFromGroup(file_list) ==
    IF Len(file_list) > 1 THEN Tail(SortedByStr(file_list)) ELSE << >>

\* The loop over duplicates.items(): files_to_delete.extend(sorted_files[1:]).
RECURSIVE DeleteFromGroups(_)
DeleteFromGroups(duplicates) ==
    IF Len(duplicates) = 0 THEN << >>
    ELSE DeleteFromGroup(duplicates[1].file_list) \o DeleteFromGroups(Tail(duplicates))

\* get_files_to_delete(report_path), for the text at report_path or NoFile.
get_files_to_delete(text) ==
    IF text = NoFile THEN << >>                          \* FileNotFoundError
    ELSE LET rows == CsvRead(text)
         IN IF Len(rows) = 0 THEN << >>                  \* next(reader): StopIteration
            ELSE DeleteFromGroups(GroupRows(Tail(rows), << >>))


(***************************************************************************)
(* SpecReport: get_files_to_delete on a report read from disk: no file, an *)
(* empty file, or a header followed by up to MaxRows rows of one, two or   *)
(* three columns.                                                          *)
(***************************************************************************)
h1 == << "h", "1" >>

h2 == << "h", "2" >>

\* The second column of a report row: "d/x.jpg", "d/x-1.jpg", "d//x.jpg", "d/y,z"
ReportLocations ==
    { << "d", "/", "x" >> \o jpg,
      << "d", "/", "x", "-", "1" >> \o jpg,
      << "d", "/", "/", "x" >> \o jpg,
      << "d", "/", "y", ",", "z" >> }

old_a == << "o", "l", "d", "/", "a" >>

ReportRowChoices ==
    { << h, loc, old_a >> : h \in {h1, h2}, loc \in ReportLocations }
    \cup { << h1, << "d", "/", "x" >> \o jpg >>, << h1 >> }

RECURSIVE SeqsUpTo(_, _)
SeqsUpTo(S, n) ==
    IF n = 0 THEN { << >> }
    ELSE LET shorter == SeqsUpTo(S, n - 1)
         IN shorter \cup { Append(q, x) : q \in { r \in shorter : Len(r) = n - 1 }, x \in S }

\* The text of a report holding the header and rows.
RECURSIVE RowsText(_)
RowsText(rows) == IF Len(rows) = 0 THEN << >> ELSE CsvRow(rows[1]) \o RowsText(Tail(rows))

ReportInit ==
    /\ pc = "report_start"
    /\ \/ report \in { NoFile, << >> }
       \/ \E rows \in SeqsUpTo(ReportRowChoices, MaxRows) :
             report = CsvRow(ReportHeader) \o RowsText(rows)
    /\ to_delete = << >>
    /\ source = << >>
    /\ copy = FALSE
    /\ image_files = << >>
    /\ done_files = 0
    /\ hashes = << >>
    /\ errors_log = << >>
    /\ transfers = << >>
    /\ files = << >>
    /\ dirs = {}
    /\ candidate = << >>
    /\ results = << >>
    /\ NoDedupe

\* files_to_delete = get_files_to_delete(report)
ReadReport ==
    /\ pc = "report_start"
    /\ to_delete' = get_files_to_delete(report)
    /\ pc' = "report_read"
    /\ UNCHANGED <<files, dirs, source, copy, image_files, done_files, hashes,
                   errors_log, transfers, report, candidate, results>>
    /\ DedupeKeep

ReportNext == ReadReport

SpecReport == ReportInit /\ [][ReportNext]_vars

Range(q) == { q[i] : i \in 1..Len(q) }

\* The rows of the report that get_files_to_delete groups: the data rows of
\* two columns or more.
DataRows(text) ==
    IF text = NoFile \/ Len(CsvRead(text)) = 0 THEN << >>
    ELSE SelectSeq(Tail(CsvRead(text)), LAMBDA row : Len(row) >= 2)

Fingerprints(text) == { row[1] : row \in Range(DataRows(text)) }

\* The locations the report gives fingerprint h.
LocationsOf(text, h) == { PathOf(row[2]) : row \in { r \in Range(DataRows(text)) : r[1] = h } }

RowCount(text, h) == Cardinality({ i \in 1..Len(DataRows(text)) : DataRows(text)[i][1] = h })

\* The location of a set whose string path is smallest.
Smallest(locs) ==
    CHOOSE p \in locs : \A q \in locs : q = p \/ StrLess(PathStr(p), PathStr(q))

\* Every location of fingerprint h but the smallest, when h has 2 or more.
OthersOf(text, h) ==
    IF RowCount(text, h) >= 2
    THEN LocationsOf(text, h) \ { Smallest(LocationsOf(text, h)) }
    ELSE {}

RECURSIVE SumOver(_, _)
SumOver(S, f) ==
    IF S = {} THEN 0
    ELSE LET x == CHOOSE y \in S : TRUE IN f[x] + SumOver(S \ {x}, f)

\* C2: get_files_to_delete groups the rows by fingerprint and, for each
\* fingerprint with 2 or more locations, keeps the location whose string path
\* is smallest and returns every other location of the group, each once;
\* fingerprints with a single location contribute nothing.
C2_KeepSmallestReturnOthers ==
    pc = "report_read" =>
        /\ Range(to_delete) = UNION { OthersOf(report, h) : h \in Fingerprints(report) }
        /\ Len(to_delete) =
              SumOver(Fingerprints(report),
                      [h \in Fingerprints(report) |-> Cardinality(OthersOf(report, h))])

\* C3: the deletion output of get_files_to_delete holds no location twice.
C3_NoLocationTwice ==
    pc = "report_read" =>
        \A i, j \in 1..Len(to_delete) : i # j => to_delete[i] # to_delete[j]


\* C2's and C3's failing report: fingerprint h1 with the one location d/x.jpg
\* in two rows, whose deletion output is that location.
C2_C3_SameLocationTwice ==
    /\ pc = "report_read"
    /\ Fingerprints(report) = {h1}
    /\ Cardinality(LocationsOf(report, h1)) = 1
    /\ Len(to_delete) >= 1

(***************************************************************************)
(* SpecLedger: write_duplicate_report on an in-memory ledger as organize   *)
(* builds one (up to MaxEntries appended pairs, every new_path of its own),*)
(* then get_files_to_delete on the report written.                         *)
(***************************************************************************)
\* d/x.jpg, d/x-1.jpg, d/y,z and d/q"r
LedgerNewPaths ==
    { << << "d" >>, << "x" >> \o jpg >>,
      << << "d" >>, << "x", "-", "1" >> \o jpg >>,
      << << "d" >>, << "y", ",", "z" >> >>,
      << << "d" >>, << "q", "\"", "r" >> >> }

\* s/x.jpg and s/t/x.jpg
LedgerOldPaths ==
    { << << "s" >>, << "x" >> \o jpg >>,
      << << "s" >>, << "t" >>, << "x" >> \o jpg >> }

LedgerEntries ==
    [hash : {h1, h2}, old_path : LedgerOldPaths, new_path : LedgerNewPaths]

\* hashes after hashes[e.hash].append((e.old_path, e.new_path)) for each e in turn
RECURSIVE LedgerOf(_)
LedgerOf(entries) ==
    IF Len(entries) = 0 THEN << >>
    ELSE LET e == entries[Len(entries)]
         IN DictAppend(LedgerOf(SubSeq(entries, 1, Len(entries) - 1)), e.hash,
                       [old_path |-> e.old_path, new_path |-> e.new_path])

LedgerInit ==
    /\ pc = "ledger_start"
    /\ \E entries \in SeqsUpTo(LedgerEntries, MaxEntries) :
          /\ \A i, j \in 1..Len(entries) : i # j => entries[i].new_path # entries[j].new_path
          /\ hashes = LedgerOf(entries)
    /\ report = NoFile
    /\ to_delete = << >>
    /\ source = << >>
    /\ copy = FALSE
    /\ image_files = << >>
    /\ done_files = 0
    /\ errors_log = << >>
    /\ transfers = << >>
    /\ files = << >>
    /\ dirs = {}
    /\ candidate = << >>
    /\ results = << >>
    /\ NoDedupe

\* write_duplicate_report(destination, hashes)
LedgerWrite ==
    /\ pc = "ledger_start"
    /\ report' = write_duplicate_report(hashes)
    /\ pc' = "ledger_written"
    /\ UNCHANGED <<files, dirs, source, copy, image_files, done_files, hashes,
                   errors_log, transfers, to_delete, candidate, results>>
    /\ DedupeKeep

\* get_files_to_delete(destination / "duplicates.csv")
LedgerRead ==
    /\ pc = "ledger_written"
    /\ to_delete' = get_files_to_delete(report)
    /\ pc' = "ledger_read"
    /\ UNCHANGED <<files, dirs, source, copy, image_files, done_files, hashes,
                   errors_log, transfers, report, candidate, results>>
    /\ DedupeKeep

LedgerNext == LedgerWrite \/ LedgerRead

SpecLedger == LedgerInit /\ [][LedgerNext]_vars

\* The items of a ledger with 2 or more locations.
Duplicated(ledger) == { g \in Range(ledger) : Len(g.file_list) >= 2 }

NewPathsOf(g) == { e.new_path : e \in Range(g.file_list) }

\* C4: write_duplicate_report writes the header row followed by exactly one
\* data row per (fingerprint, location) pair of every fingerprint that has 2
\* or more locations, and no row for a fingerprint with exactly one location.
C4_OneRowPerDuplicatePair ==
    pc \in {"ledger_written", "ledger_read"} =>
        LET rows == CsvRead(report)
            data == Tail(rows)
        IN /\ Len(rows) >= 1
           /\ rows[1] = ReportHeader
           /\ \A r \in Range(data) : Len(r) = 3
           /\ Len(data) = SumOver(Duplicated(hashes),
                                  [g \in Duplicated(hashes) |-> Len(g.file_list)])
           /\ { << r[1], r[2] >> : r \in Range(data) }
                 = UNION { { << g.hash, PathStr(q) >> : q \in NewPathsOf(g) } :
                           g \in Duplicated(hashes) }
           /\ \A g \in Range(hashes) :
                 Len(g.file_list) = 1 => \A r \in Range(data) : r[1] # g.hash

\* C4's case: a ledger with a fingerprint of two locations and a fingerprint
\* of one, written as the header and two rows.
C4_Witness ==
    /\ pc = "ledger_written"
    /\ \E g \in Range(hashes) : Len(g.file_list) = 2
    /\ \E g \in Range(hashes) : Len(g.file_list) = 1
    /\ Len(CsvRead(report)) = 3

\* The keep-smallest-path rule applied to the ledger's final locations.
DirectDeletions(ledger) ==
    UNION { NewPathsOf(g) \ { Smallest(NewPathsOf(g)) } : g \in Duplicated(ledger) }

\* C5: writing a ledger with write_duplicate_report and reading the report
\* with get_files_to_delete yields the deletion set the keep-smallest-path
\* rule gives on the ledger's final locations.
C5_RoundTripDeletions ==
    pc = "ledger_read" => Range(to_delete) = DirectDeletions(hashes)

\* C5's case: a fingerprint of three locations went through the report and
\* two of them, one with a comma in its name, came back to delete.
C5_Witness ==
    /\ pc = "ledger_read"
    /\ Len(to_delete) = 2
    /\ << << "d" >>, << "y", ",", "z" >> >> \in Range(to_delete)


(***************************************************************************)
(* utils.transfer_file and what it calls.                                  *)
(***************************************************************************)
missing_date == << "m", "i", "s", "s", "i", "n", "g", "_", "d", "a", "t", "e" >>

\* f"{n:02d}"
Pad2(n) == IF n < 10 THEN << "0" >> \o Dec(n) ELSE Dec(n)

\* The directory create_date_based_directory makes and returns.
create_date_based_directory(destination_dir, date) ==
    Child(destination_dir, Dec(date.year) \o << "-" >> \o Pad2(date.month))

\* transfer_file's target_dir
TargetDir(destination_dir, date) ==
    IF date # NoDate THEN create_date_based_directory(destination_dir, date)
    ELSE Child(destination_dir, missing_date)

\* f with path p removed
Without(f, p) == [q \in DOMAIN f \ {p} |-> f[q]]

\* transfer_file(image_path, destination_dir, date, copy): the path returned
\* and the filesystem afterwards.
transfer_file(fs_files, fs_dirs, image_path, destination_dir, date, copy_flag) ==
    LET target_dir == TargetDir(destination_dir, date)
        new_dirs == fs_dirs \cup {target_dir}
        destination_path ==
            get_unique_filename(fs_files, new_dirs, Child(target_dir, NameOf(image_path)))
        copied == (destination_path :> fs_files[image_path]) @@ fs_files
    IN [path |-> destination_path,
        dirs |-> new_dirs,
        files |-> IF copy_flag THEN copied ELSE Without(copied, image_path)]

\* calculate_hash(image_path), for a file that can be read
calculate_hash(fs_files, image_path) == fs_files[image_path].hash

\* get_exif_date(image_path): the date, or NoDate for None
get_exif_date(fs_files, image_path) ==
    IF image_path \in DOMAIN fs_files THEN fs_files[image_path].date ELSE NoDate

(***************************************************************************)
(* utils.find_image_files                                                  *)
(***************************************************************************)
extensions == { jpg, << ".", "j", "p", "e", "g" >> }

IsPrefix(p, q) == Len(p) <= Len(q) /\ SubSeq(q, 1, Len(p)) = p

\* The paths source_dir.rglob("*") yields that pass the filter.
ImagesUnder(fs_files, source_dir) ==
    { path \in DOMAIN fs_files :
         /\ IsPrefix(source_dir, path) /\ path # source_dir
         /\ IsFile(fs_files, path)
         /\ Lower(SuffixOf(path)) \in extensions }

\* Every order in which a set can be listed.
RECURSIVE OrdersOf(_)
OrdersOf(S) ==
    IF S = {} THEN { << >> }
    ELSE UNION { { << x >> \o rest : rest \in OrdersOf(S \ {x}) } : x \in S }

\* What list(find_image_files(source_dirs)) can be: root after root, the
\* files under a root in the order the directory scan yields them.
RECURSIVE find_image_files(_, _)
find_image_files(fs_files, source_dirs) ==
    IF Len(source_dirs) = 0 THEN { << >> }
    ELSE { first \o rest :
              first \in OrdersOf(ImagesUnder(fs_files, source_dirs[1])),
              rest \in find_image_files(fs_files, Tail(source_dirs)) }

(***************************************************************************)
(* cli.organize                                                            *)
(***************************************************************************)
Root == << Slash >>

\* --destination /d
destination == << Slash, << "d" >> >>

dir_a == << Slash, << "a" >> >>

dir_a_b == << Slash, << "a" >>, << "b" >> >>

dir_c == << Slash, << "c" >> >>

dir_d_e == << Slash, << "d" >>, << "e" >> >>

\* /l, a symbolic link to /d
link_l == << Slash, << "l" >> >>

\* path.resolve(): the path with the symbolic link followed
Resolve(p) ==
    IF IsPrefix(link_l, p) THEN destination \o SubSeq(p, Len(link_l) + 1, Len(p)) ELSE p

\* The overlap condition without "or d_resolved in s_resolved.parents":
\* a source inside the destination passes.
OverlapsNoDescendant(s, d) ==
    LET s_resolved == Resolve(s)
        d_resolved == Resolve(d)
    IN \/ s_resolved = d_resolved
       \/ s_resolved \in ParentsOf(d_resolved)

\* The condition under which organize raises click.UsageError for source s.
Overlaps(s, d) ==
    LET s_resolved == Resolve(s)
        d_resolved == Resolve(d)
    IN \/ s_resolved = d_resolved
       \/ s_resolved \in ParentsOf(d_resolved)
       \/ d_resolved \in ParentsOf(s_resolved)

\* The validation loop raises for some source.
ValidationFails(sources, d) == \E i \in 1..Len(sources) : Overlaps(sources[i], d)

\* The existing directories --source can name.
SourceChoices == { dir_a, dir_a_b, dir_c, destination, dir_d_e, Root, link_l }

SourceLists ==
    { << s >> : s \in SourceChoices } \cup { << s, t >> : s \in SourceChoices, t \in SourceChoices }

date_2023_10 == [year |-> 2023, month |-> 10]

date_999_01 == [year |-> 999, month |-> 1]

h0 == << "h", "0" >>

file_a_x == Child(dir_a, << "x" >> \o jpg)

file_a_b_x == Child(dir_a_b, << "x" >> \o jpg)

file_c_x1 == Child(dir_c, << "x", "-", "1" >> \o jpg)

file_c_y == Child(dir_c, << "y", ".", "J", "P", "E", "G" >>)

file_c_n == Child(dir_c, << "n", ".", "t", "x", "t" >>)

\* A source path that holds no file.
NoContent == FileContent(<< >>, NoDate)

\* What each source path may hold when the run starts.
SourceFileChoices ==
    { (file_a_x :> xa) @@ (file_a_b_x :> xb) @@ (file_c_x1 :> x1) @@ (file_c_y :> y) :
        xa \in { NoContent, FileContent(h1, NoDate), FileContent(h1, date_2023_10) },
        xb \in { NoContent, FileContent(h1, NoDate), FileContent(h2, date_999_01) },
        x1 \in { NoContent, FileContent(h1, NoDate) },
        y \in { NoContent, FileContent(h2, date_2023_10) } }

\* What the destination tree may hold when the run starts.
DestinationChoices ==
    { << >>,
      Child(Child(destination, missing_date), << "x" >> \o jpg) :> FileContent(h0, NoDate),
      Child(Child(destination, << "2", "0", "2", "3", "-", "1", "0" >>), << "x" >> \o jpg)
          :> FileContent(h0, NoDate),
      Child(destination, missing_date) :> FileContent(h0, NoDate) }

\* The directories of a set of files, the root excluded.
DirsOf(paths) == UNION { ParentsOf(p) \ {Root} : p \in paths }

OrganizeInit ==
    /\ pc = "organize_start"
    /\ source \in SourceLists
    /\ copy \in BOOLEAN
    /\ \E src \in SourceFileChoices, dst \in DestinationChoices :
          LET present == { p \in DOMAIN src : src[p] # NoContent }
          IN /\ files = [p \in present |-> src[p]] @@ dst
                        @@ (file_c_n :> FileContent(h0, NoDate))
             /\ dirs = { Root, dir_a, dir_a_b, dir_c, destination, dir_d_e }
                       \cup DirsOf(DOMAIN dst)
    /\ image_files = << >>
    /\ done_files = 0
    /\ hashes = << >>
    /\ errors_log = << >>
    /\ transfers = << >>
    /\ report = NoFile
    /\ to_delete = << >>
    /\ candidate = << >>
    /\ results = << >>
    /\ NoDedupe

OrganizeKeep ==
    UNCHANGED <<source, copy, to_delete, candidate, results, yes, answer, deleted, dedupe_exit>>

\* The validation loop raises click.UsageError.
ValidateReject ==
    /\ pc = "organize_start"
    /\ ValidationFails(source, destination)
    /\ pc' = "usage_error"
    /\ UNCHANGED <<files, dirs, image_files, done_files, hashes, errors_log, transfers, report>>
    /\ OrganizeKeep

\* Validation passes and find_image_files finds nothing: organize returns.
DiscoverNothing ==
    /\ pc = "organize_start"
    /\ ~ValidationFails(source, destination)
    /\ find_image_files(files, source) = { << >> }
    /\ pc' = "no_images"
    /\ UNCHANGED <<files, dirs, image_files, done_files, hashes, errors_log, transfers, report>>
    /\ OrganizeKeep

\* Validation passes and image_files = list(find_image_files(source)).
Discover ==
    /\ pc = "organize_start"
    /\ ~ValidationFails(source, destination)
    /\ image_files' \in find_image_files(files, source)
    /\ image_files' # << >>
    /\ pc' = "processing"
    /\ UNCHANGED <<files, dirs, done_files, hashes, errors_log, transfers, report>>
    /\ OrganizeKeep

\* The file the loop is at.
image_file == image_files[done_files + 1]

InLoop == pc = "processing" /\ done_files < Len(image_files)

\* I/O errors the run has met so far (a file that is gone is not one).
IoFailures == Cardinality({ i \in 1..Len(errors_log) : errors_log[i].io })

\* target_dir.mkdir raises FileExistsError: a regular file has the name.
MkdirFails == TargetDir(destination, get_exif_date(files, image_file)) \in DOMAIN files

\* One iteration in which nothing raises.
ProcessFile ==
    /\ InLoop
    /\ image_file \in DOMAIN files
    /\ ~MkdirFails
    /\ LET file_hash == calculate_hash(files, image_file)
           date == get_exif_date(files, image_file)
           t == transfer_file(files, dirs, image_file, destination, date, copy)
       IN /\ files' = t.files
          /\ dirs' = t.dirs
          /\ hashes' = DictAppend(hashes, file_hash,
                                  [old_path |-> image_file, new_path |-> t.path])
          /\ transfers' = Append(transfers,
                                 [index |-> done_files + 1, image_path |-> image_file,
                                  date |-> date, copy |-> copy, path |-> t.path,
                                  existed |-> Exists(files, dirs, t.path)])
    /\ done_files' = done_files + 1
    /\ UNCHANGED <<pc, image_files, errors_log, report>>
    /\ OrganizeKeep

\* One iteration in which calculate_hash raises: the file is gone, or an
\* I/O error.  The except clause logs it.
ProcessHashFails ==
    /\ InLoop
    /\ image_file \notin DOMAIN files \/ IoFailures < MaxFailures
    /\ errors_log' = Append(errors_log,
                            [index |-> done_files + 1, path |-> image_file,
                             io |-> image_file \in DOMAIN files])
    /\ done_files' = done_files + 1
    /\ UNCHANGED <<pc, files, dirs, image_files, hashes, transfers, report>>
    /\ OrganizeKeep

\* ProcessTransferFails with the ledger entry appended before the failure.
ProcessTransferFailsRecorded ==
    /\ InLoop
    /\ image_file \in DOMAIN files
    /\ IoFailures < MaxFailures
    /\ hashes' = DictAppend(hashes, calculate_hash(files, image_file),
                            [old_path |-> image_file, new_path |-> image_file])
    /\ errors_log' = Append(errors_log,
                            [index |-> done_files + 1, path |-> image_file, io |-> TRUE])
    /\ done_files' = done_files + 1
    /\ UNCHANGED <<pc, files, dirs, image_files, transfers, report>>
    /\ OrganizeKeep

\* One iteration in which transfer_file raises: at mkdir, at the copy or
\* move (the target directory is made), or after the data was copied
\* (copystat, or the unlink of a move across devices: the destination file
\* is there).  The except clause logs it.
ProcessTransferFails ==
    /\ InLoop
    /\ image_file \in DOMAIN files
    /\ LET date == get_exif_date(files, image_file)
           t == transfer_file(files, dirs, image_file, destination, date, TRUE)
       IN \/ /\ MkdirFails
             /\ UNCHANGED <<files, dirs>>
             /\ errors_log' = Append(errors_log,
                                     [index |-> done_files + 1, path |-> image_file,
                                      io |-> FALSE])
          \/ /\ ~MkdirFails
             /\ IoFailures < MaxFailures
             /\ \/ UNCHANGED <<files, dirs>>
                \/ dirs' = t.dirs /\ UNCHANGED files
                \/ dirs' = t.dirs /\ files' = t.files
             /\ errors_log' = Append(errors_log,
                                     [index |-> done_files + 1, path |-> image_file,
                                      io |-> TRUE])
    /\ done_files' = done_files + 1
    /\ UNCHANGED <<pc, image_files, hashes, transfers, report>>
    /\ OrganizeKeep

\* WriteReport with write_duplicate_report inside the loop: the report is
\* written after each file.
WriteReportInLoop ==
    /\ pc = "processing"
    /\ done_files >= 1
    /\ report' = write_duplicate_report(hashes)
    /\ pc' = IF done_files = Len(image_files) THEN "done" ELSE "processing"
    /\ UNCHANGED <<files, dirs, image_files, done_files, hashes, errors_log, transfers>>
    /\ OrganizeKeep

\* write_duplicate_report(destination, hashes); click.echo("Done!")
WriteReport ==
    /\ pc = "processing"
    /\ done_files = Len(image_files)
    /\ report' = write_duplicate_report(hashes)
    /\ pc' = "done"
    /\ UNCHANGED <<files, dirs, image_files, done_files, hashes, errors_log, transfers>>
    /\ OrganizeKeep

(***************************************************************************)
(* cli.dedupe                                                              *)
(***************************************************************************)
\* After organize has ended, dedupe --report D/duplicates.csv is run, with or
\* without --yes, nothing else having changed in between.
RunDedupe ==
    /\ pc = "done"
    /\ pc' = "dedupe_start"
    /\ yes' \in BOOLEAN
    /\ UNCHANGED <<files, dirs, source, copy, image_files, done_files, hashes, errors_log,
                   transfers, report, to_delete, candidate, results, answer, deleted,
                   dedupe_exit>>

\* What dedupe leaves alone.
DedupeFrame ==
    UNCHANGED <<dirs, source, copy, image_files, done_files, hashes, errors_log,
                transfers, report, candidate, results>>

\* files_to_delete is empty: "No duplicate files found to delete.", return.
DedupeNothing ==
    /\ pc = "dedupe_start"
    /\ get_files_to_delete(report) = << >>
    /\ to_delete' = << >>
    /\ pc' = "dedupe_nothing"
    /\ dedupe_exit' = << 0 >>
    /\ UNCHANGED <<files, yes, answer, deleted>>
    /\ DedupeFrame

\* files_to_delete is not empty: with --yes the loop is next, without it
\* click.confirm.
DedupeFound ==
    /\ pc = "dedupe_start"
    /\ get_files_to_delete(report) # << >>
    /\ to_delete' = get_files_to_delete(report)
    /\ pc' = IF yes THEN "deleting" ELSE "confirm"
    /\ UNCHANGED <<files, yes, answer, deleted, dedupe_exit>>
    /\ DedupeFrame

\* The user answers y to click.confirm.
DedupeConfirm ==
    /\ pc = "confirm"
    /\ answer' = "y"
    /\ pc' = "deleting"
    /\ UNCHANGED <<files, yes, to_delete, deleted, dedupe_exit>>
    /\ DedupeFrame

\* DedupeDecline with click.confirm(..., abort=False): the answer is ignored.
DedupeDeclineIgnored ==
    /\ pc = "confirm"
    /\ answer' \in { "n", "default", "eof" }
    /\ pc' = "deleting"
    /\ UNCHANGED <<files, yes, to_delete, deleted, dedupe_exit>>
    /\ DedupeFrame

\* The user answers n, presses Enter (the default is No) or closes the input:
\* click.confirm(..., abort=True) raises Abort and click exits with status 1.
DedupeDecline ==
    /\ pc = "confirm"
    /\ answer' \in { "n", "default", "eof" }
    /\ pc' = "dedupe_aborted"
    /\ dedupe_exit' = << 1 >>
    /\ UNCHANGED <<files, yes, to_delete, deleted>>
    /\ DedupeFrame

\* The entry of files_to_delete the loop is at.
delete_file == to_delete[Len(deleted) + 1]

InDeleteLoop == pc = "deleting" /\ Len(deleted) < Len(to_delete)

\* Iterations in which unlink raised on a regular file.
DeleteFailures ==
    Cardinality({ i \in 1..Len(deleted) : deleted[i].outcome = "error" /\ deleted[i].was_file })

\* One iteration in which nothing raises: f.unlink() when f.exists(), a skip
\* when it does not.
DedupeUnlink ==
    /\ InDeleteLoop
    /\ delete_file \notin dirs
    /\ IF Exists(files, dirs, delete_file)
       THEN /\ files' = Without(files, delete_file)
            /\ deleted' = Append(deleted, [path |-> delete_file, outcome |-> "deleted",
                                           was_file |-> TRUE])
       ELSE /\ UNCHANGED files
            /\ deleted' = Append(deleted, [path |-> delete_file, outcome |-> "skipped",
                                           was_file |-> FALSE])
    /\ UNCHANGED <<pc, yes, answer, to_delete, dedupe_exit>>
    /\ DedupeFrame

\* One iteration in which f.unlink() raises: f is a directory, or an I/O
\* error.  The except clause logs it and the loop goes on.
DedupeUnlinkFails ==
    /\ InDeleteLoop
    /\ Exists(files, dirs, delete_file)
    /\ delete_file \in dirs \/ DeleteFailures < MaxDeleteFailures
    /\ deleted' = Append(deleted, [path |-> delete_file, outcome |-> "error",
                                   was_file |-> IsFile(files, delete_file)])
    /\ UNCHANGED <<pc, files, yes, answer, to_delete, dedupe_exit>>
    /\ DedupeFrame

\* The loop is over: "Duplicate files deleted.", return.
DedupeFinish ==
    /\ pc = "deleting"
    /\ Len(deleted) = Len(to_delete)
    /\ pc' = "dedupe_done"
    /\ dedupe_exit' = << 0 >>
    /\ UNCHANGED <<files, yes, answer, to_delete, deleted>>
    /\ DedupeFrame

DedupeNext ==
    \/ DedupeNothing
    \/ DedupeFound
    \/ DedupeConfirm
    \/ DedupeDecline
    \/ DedupeUnlink
    \/ DedupeUnlinkFails
    \/ DedupeFinish

(***************************************************************************)
(* SpecDedupe: dedupe on a report read from disk (an empty file, or a      *)
(* header followed by up to MaxRows rows), with or without --yes, when any *)
(* of the report's locations may be a file, a directory or absent.         *)
(***************************************************************************)
DedupeLocations == { PathOf(loc) : loc \in ReportLocations }

\* d/y,z
dir_y_z == PathOf(<< "d", "/", "y", ",", "z" >>)

\* The rows of the report: fingerprint, new_filepath, old_filepath.
DedupeRowChoices ==
    { << h1, << "d", "/", "x" >> \o jpg, old_a >>,
      << h1, << "d", "/", "x", "-", "1" >> \o jpg, old_a >>,
      << h1, << "d", "/", "y", ",", "z" >>, old_a >>,
      << h2, << "d", "/", "x", "-", "1" >> \o jpg, old_a >>,
      << h2, << "d", "/", "/", "x" >> \o jpg, old_a >> }

DedupeInit ==
    /\ pc = "dedupe_start"
    /\ yes \in BOOLEAN
    /\ answer = ""
    /\ deleted = << >>
    /\ dedupe_exit = << >>
    /\ \/ report = << >>
       \/ \E rows \in SeqsUpTo(DedupeRowChoices, MaxRows) :
             report = CsvRow(ReportHeader) \o RowsText(rows)
    /\ \E present \in SUBSET DedupeLocations, as_dirs \in SUBSET {dir_y_z} :
          /\ as_dirs \cap present = {}
          /\ files = [p \in present |-> FileContent(h1, NoDate)]
          /\ dirs = { << << "d" >> >> } \cup as_dirs
    /\ to_delete = << >>
    /\ source = << >>
    /\ copy = FALSE
    /\ image_files = << >>
    /\ done_files = 0
    /\ hashes = << >>
    /\ errors_log = << >>
    /\ transfers = << >>
    /\ candidate = << >>
    /\ results = << >>

SpecDedupe == DedupeInit /\ [][DedupeNext]_vars

\* C11: dedupe deletes a file only when the deletion set is not empty and
\* either --yes is set or the user answered yes; when the deletion set is
\* empty it exits with status 0 without touching the filesystem, and when the
\* user declines it exits with a non-zero status and no file has been deleted.
C11_DeleteOnlyWhenConfirmed ==
    /\ [](/\ pc = "dedupe_nothing" =>
                to_delete = << >> /\ deleted = << >> /\ dedupe_exit = << 0 >>
          /\ (pc # "dedupe_start" /\ get_files_to_delete(report) = << >>) =>
                pc = "dedupe_nothing"
          /\ answer \notin { "", "y" } =>
                /\ pc = "dedupe_aborted"
                /\ deleted = << >>
                /\ Len(dedupe_exit) = 1 /\ dedupe_exit[1] # 0
          /\ pc = "dedupe_aborted" => ~yes /\ answer \notin { "", "y" }
          /\ deleted # << >> => to_delete # << >> /\ (yes \/ answer = "y"))
    /\ [][(files' # files \/ dirs' # dirs) =>
             /\ pc = "deleting"
             /\ to_delete # << >>
             /\ yes \/ answer = "y"
             /\ DOMAIN files' = DOMAIN files \ { delete_file }]_vars

\* C11's case: the user declined a deletion set that names a file that
\* exists.
C11_Witness ==
    /\ pc = "dedupe_aborted"
    /\ answer = "n"
    /\ \E i \in 1..Len(to_delete) : to_delete[i] \in DOMAIN files

Next ==
    \/ ValidateReject
    \/ DiscoverNothing
    \/ Discover
    \/ ProcessFile
    \/ ProcessHashFails
    \/ ProcessTransferFails
    \/ WriteReport
    \/ RunDedupe
    \/ DedupeNext

Spec == OrganizeInit /\ [][Next]_vars


\* C1: every source file that is transferred ends up at exactly one final
\* location: each transfer_file call returns a path that did not exist
\* before the call, no two transfers of the run return the same path, and
\* no source file is transferred to two locations.
C1_ExactlyOneFinalLocation ==
    /\ \A i \in 1..Len(transfers) : ~transfers[i].existed
    /\ \A i, j \in 1..Len(transfers) :
          i # j => transfers[i].path # transfers[j].path
    /\ \A i, j \in 1..Len(transfers) :
          i # j => transfers[i].image_path # transfers[j].image_path

\* What holds of C1: a transfer never returns an existing path and no two
\* transfers return the same path.
TransfersNeverCollide ==
    /\ \A i \in 1..Len(transfers) : ~transfers[i].existed
    /\ \A i, j \in 1..Len(transfers) :
          i # j => transfers[i].path # transfers[j].path

\* What holds of C1: no step of organize removes or changes a file that is in
\* the destination tree.
DestinationFilesKept ==
    [][(pc \in {"organize_start", "processing"}) =>
          \A p \in DOMAIN files :
             IsPrefix(destination, p) => (p \in DOMAIN files' /\ files'[p] = files[p])]_vars

\* f"{n:04d}"
Pad4(n) ==
    IF n < 10 THEN << "0", "0", "0" >> \o Dec(n)
    ELSE IF n < 100 THEN << "0", "0" >> \o Dec(n)
    ELSE IF n < 1000 THEN << "0" >> \o Dec(n)
    ELSE Dec(n)

\* C8: after a successful transfer_file the returned file lies directly in
\* D/<YYYY-MM of date> when a date is present and directly in D/missing_date
\* when it is absent; in copy mode the original still exists at its source
\* path, in move mode it no longer does.
C8_LandsByDateSourceByMode ==
    \A i \in 1..Len(transfers) :
       LET t == transfers[i]
       IN /\ pc \in {"processing", "done"} => t.path \in DOMAIN files
          /\ ParentOf(t.path) =
                (IF t.date # NoDate
                 THEN Child(destination, Pad4(t.date.year) \o << "-" >> \o Pad2(t.date.month))
                 ELSE Child(destination, missing_date))
          /\ t.copy => t.image_path \in DOMAIN files
          /\ ~t.copy => t.image_path \notin DOMAIN files

\* What holds of C8: the directory is D/<year>-<two-digit month>, the year
\* as str(date.year) writes it.
TransfersLandByYearMonth ==
    \A i \in 1..Len(transfers) :
       LET t == transfers[i]
       IN /\ pc \in {"processing", "done"} => t.path \in DOMAIN files
          /\ pc \in {"processing", "done"} => files[t.path].hash = calculate_hash(files, t.path)
          /\ ParentOf(t.path) =
                (IF t.date # NoDate
                 THEN Child(destination, Dec(t.date.year) \o << "-" >> \o Pad2(t.date.month))
                 ELSE Child(destination, missing_date))
          /\ t.copy => t.image_path \in DOMAIN files
          /\ ~t.copy => t.image_path \notin DOMAIN files

\* Source s is the destination, above it or below it, symbolic links followed.
Related(s, d) == IsPrefix(Resolve(s), Resolve(d)) \/ IsPrefix(Resolve(d), Resolve(s))

\* C9: organize rejects the run with a usage error if and only if some source
\* root is, in resolved form, identical to, an ancestor of or a descendant of
\* the destination root; on rejection no file has been discovered,
\* transferred or recorded and no report has been written.
C9_RejectIffOverlap ==
    /\ pc # "organize_start" =>
          (pc = "usage_error" <=> \E i \in 1..Len(source) : Related(source[i], destination))
    /\ \A s \in {destination, dir_d_e, Root, link_l} :
          (pc # "organize_start" /\ \E i \in 1..Len(source) : source[i] = s)
             => pc = "usage_error"
    /\ pc = "usage_error" =>
          /\ image_files = << >>
          /\ done_files = 0
          /\ transfers = << >>
          /\ hashes = << >>
          /\ errors_log = << >>
          /\ report = NoFile

\* C9's case: the second source root is a link to the destination.
C9_Witness == pc = "usage_error" /\ source = << dir_a, link_l >>

\* organize has said "Done!"; dedupe may have been run since.
OrganizeDone ==
    pc \in {"done", "dedupe_start", "dedupe_nothing", "confirm", "dedupe_aborted",
            "deleting", "dedupe_done"}

\* The (old_path, new_path) pairs of a ledger, and how many it holds.
LedgerPairs(ledger) ==
    UNION { { << e.old_path, e.new_path >> : e \in Range(g.file_list) } : g \in Range(ledger) }

LedgerSize(ledger) ==
    SumOver(Range(ledger), [g \in Range(ledger) |-> Len(g.file_list)])

Logged(i) == \E k \in 1..Len(errors_log) : errors_log[k].index = i

Transferred(i) == \E k \in 1..Len(transfers) : transfers[k].index = i

\* C10: when fingerprinting or transferring a discovered file fails, the
\* failure is caught and logged, the file adds no entry to the ledger, every
\* later file is still processed and the report is still written at the end.
C10_FailureSkipsOneFile ==
    /\ pc \in {"organize_start", "usage_error", "no_images", "processing"} \/ OrganizeDone
    /\ pc = "processing" \/ OrganizeDone =>
          /\ \A i \in 1..done_files : Logged(i) # Transferred(i)
          /\ \A i \in (done_files + 1)..Len(image_files) : ~Logged(i) /\ ~Transferred(i)
          /\ LedgerSize(hashes) = Len(transfers)
          /\ LedgerPairs(hashes)
                = { << transfers[k].image_path, transfers[k].path >> : k \in 1..Len(transfers) }
    /\ OrganizeDone =>
          /\ done_files = Len(image_files)
          /\ report # NoFile
          /\ CsvRead(report)[1] = ReportHeader

\* C10's case: a file failed on an I/O error, a later file was transferred
\* and the report was written.
C10_Witness ==
    /\ OrganizeDone
    /\ report # NoFile
    /\ \E k \in 1..Len(errors_log), m \in 1..Len(transfers) :
          errors_log[k].io /\ transfers[m].index > errors_log[k].index

\* C12: every organize run that passes validation ends by writing
\* duplicates.csv, whatever it discovered: once the run has ended the report
\* is there.
C12_ReportForEveryValidatedRun ==
    (pc = "no_images" \/ OrganizeDone) => report # NoFile

\* C12 as amended: a run that discovers at least one file says "Done!" only
\* after it has processed every discovered file and then written
\* duplicates.csv from the ledger, once; a run that discovers no file returns
\* without writing the report.
C12_ReportOnceAfterAllFiles ==
    /\ [](/\ pc \in {"organize_start", "usage_error", "processing"} => report = NoFile
          /\ pc = "no_images" => image_files = << >> /\ report = NoFile
          /\ OrganizeDone =>
                /\ Len(image_files) >= 1
                /\ done_files = Len(image_files)
                /\ \A i \in 1..Len(image_files) : Logged(i) \/ Transferred(i)
                /\ report = write_duplicate_report(hashes))
    /\ [][report' # report =>
             /\ pc = "processing" /\ pc' = "done"
             /\ done_files = Len(image_files)
             /\ report = NoFile]_vars

\* C12's case: the run found two files or more, one of them failed, and the
\* report written after the last of them lists duplicates.
C12_Witness ==
    /\ pc = "done"
    /\ Len(image_files) >= 2
    /\ errors_log # << >>
    /\ Duplicated(hashes) # {}
    /\ report = write_duplicate_report(hashes)

\* The final locations the run recorded, and the paths it transferred from.
FinalLocations == { transfers[k].path : k \in 1..Len(transfers) }

SourcePaths == { transfers[k].image_path : k \in 1..Len(transfers) }

\* C13: organize into D and then dedupe on the D/duplicates.csv it wrote
\* never removes the last copy of any content: for every fingerprint of a
\* transferred file one of its final locations still exists in D with that
\* content, and every file dedupe deletes is a final location the run
\* recorded, never a path a file was transferred from.
C13_DedupeKeepsLastCopy ==
    OrganizeDone =>
        /\ \A g \in Range(hashes) :
              \E e \in Range(g.file_list) :
                 /\ e.new_path \in DOMAIN files
                 /\ IsPrefix(destination, e.new_path)
                 /\ calculate_hash(files, e.new_path) = g.hash
        /\ Range(to_delete) \subseteq FinalLocations
        /\ \A i \in 1..Len(deleted) :
              /\ deleted[i].path \in FinalLocations
              /\ deleted[i].path \notin SourcePaths
              /\ \A k \in 1..Len(source) : ~IsPrefix(Resolve(source[k]), deleted[i].path)

\* C13's case: dedupe has deleted a duplicate of a run that moved its files.
C13_Witness ==
    /\ pc = "dedupe_done"
    /\ ~copy
    /\ \E i \in 1..Len(deleted) : deleted[i].outcome = "deleted"

=============================================================================
